---------------------------- MODULE Spec2Model ----------------------------
(***************************************************************************)
(* MelodicaMate: the note-to-scale-degree mapper (services/music_mapping)  *)
(* with its inverse for display (services/pd_library) and its route        *)
(* (app.py), and the positional sequence scorer (services/scoring).        *)
(*                                                                         *)
(* Python values are modelled as follows.                                  *)
(*   str            a sequence of one-character strings, "C#4" being       *)
(*                  <<"C", "#", "4">>, so that upper(), lower(), strip()   *)
(*                  and the f-string formatting act character by character *)
(*   int            an integer; Python's // and % round towards minus      *)
(*                  infinity, as \div and % do                             *)
(*   float          an accuracy is kept in hundredths of a percent         *)
(*                  (66.67 is 6667)                                        *)
(*   Optional[T]    None, or Some(v)                                       *)
(*   list           a sequence (1-based here, 0-based in the source)       *)
(*   dict           a record; an absent key is a field not in its DOMAIN   *)
(*   exception      a call that can raise ends with Return(v) or Raise(e)  *)
(***************************************************************************)
EXTENDS Integers, Sequences, FiniteSets, TLC

VARIABLES call, result, pc

\* The rate limiter of create_app: the limit read from the environment at
\* import, the buckets by client address, and the last value of time.time().
\* log and fn_calls are history: every request served by a limited route,
\* and how often the route's own function ran.
VARIABLES RATE_LIMIT_PER_MIN, rate_state, now, log, fn_calls

limiter == <<RATE_LIMIT_PER_MIN, rate_state, now, log, fn_calls>>

vars == <<call, result, pc, limiter>>

---------------------------------------------------------------------------
(* Python values *)

None == [is_none |-> TRUE]

Some(v) == [is_none |-> FALSE, value |-> v]

IsNone(v) == v.is_none

\* dict.get(key): the value, or None when the key is absent
get(d, key) == IF key \in DOMAIN d THEN d[key] ELSE None

CasePairs ==
  { <<"a", "A">>, <<"b", "B">>, <<"c", "C">>, <<"d", "D">>, <<"e", "E">>,
    <<"f", "F">>, <<"g", "G">>, <<"h", "H">>, <<"i", "I">>, <<"j", "J">>,
    <<"k", "K">>, <<"l", "L">>, <<"m", "M">>, <<"n", "N">>, <<"o", "O">>,
    <<"p", "P">>, <<"q", "Q">>, <<"r", "R">>, <<"s", "S">>, <<"t", "T">>,
    <<"u", "U">>, <<"v", "V">>, <<"w", "W">>, <<"x", "X">>, <<"y", "Y">>,
    <<"z", "Z">> }

\* the upper-case letter of each lower-case letter
UpperOf == [c \in {p[1] : p \in CasePairs} |->
              (CHOOSE p \in CasePairs : p[1] = c)[2]]

\* the lower-case letter of each upper-case letter
LowerOf == [c \in {p[2] : p \in CasePairs} |->
              (CHOOSE p \in CasePairs : p[2] = c)[1]]

upper_char(c) == IF c \in DOMAIN UpperOf THEN UpperOf[c] ELSE c

lower_char(c) == IF c \in DOMAIN LowerOf THEN LowerOf[c] ELSE c

\* str.upper()
upper(s) == [i \in 1..Len(s) |-> upper_char(s[i])]

\* str.lower()
lower(s) == [i \in 1..Len(s) |-> lower_char(s[i])]

Whitespace == {" "}

RECURSIVE lstrip(_)
lstrip(s) ==
  IF s # <<>> /\ Head(s) \in Whitespace THEN lstrip(Tail(s)) ELSE s

RECURSIVE rstrip(_)
rstrip(s) ==
  IF s # <<>> /\ s[Len(s)] \in Whitespace
  THEN rstrip(SubSeq(s, 1, Len(s) - 1))
  ELSE s

\* str.strip()
strip(s) == rstrip(lstrip(s))

DigitChars == <<"0", "1", "2", "3", "4", "5", "6", "7", "8", "9">>

RECURSIVE nat_str(_)
nat_str(n) ==
  IF n < 10
  THEN <<DigitChars[n + 1]>>
  ELSE nat_str(n \div 10) \o <<DigitChars[(n % 10) + 1]>>

\* str(int), as the f-strings format an integer
int_str(n) == IF n < 0 THEN <<"-">> \o nat_str(-n) ELSE nat_str(n)

\* x in list
list_contains(list, x) == \E i \in 1..Len(list) : list[i] = x

\* list.index(x): the 0-based position of the first occurrence; None stands
\* for the ValueError raised when x does not occur
list_index(list, x) ==
  IF list_contains(list, x)
  THEN Some((CHOOSE i \in 1..Len(list) :
               /\ list[i] = x
               /\ \A j \in 1..(i - 1) : list[j] # x) - 1)
  ELSE None

---------------------------------------------------------------------------
(* services/music_mapping.py *)

PITCH_CLASSES ==
  << <<"C">>, <<"C", "#">>, <<"D">>, <<"D", "#">>, <<"E">>, <<"F">>,
     <<"F", "#">>, <<"G">>, <<"G", "#">>, <<"A">>, <<"A", "#">>, <<"B">> >>

\* midi_to_note_name with a division that rounds towards zero
midi_to_note_name_trunc(midi) ==
  IF IsNone(midi)
  THEN <<>>
  ELSE LET m == midi.value
           octave == (IF m < 0 THEN -((-m) \div 12) ELSE m \div 12) - 1
           name == PITCH_CLASSES[(m % 12) + 1]
       IN  name \o int_str(octave)

midi_to_note_name(midi) ==
  IF IsNone(midi)
  THEN <<>>
  ELSE LET octave == (midi.value \div 12) - 1
           name == PITCH_CLASSES[(midi.value % 12) + 1]
       IN  name \o int_str(octave)

\* the aliases dict of _pitch_class_index, as (key, value) pairs
aliases ==
  { << <<"D", "B">>, <<"C", "#">> >>, << <<"E", "B">>, <<"D", "#">> >>,
    << <<"G", "B">>, <<"F", "#">> >>, << <<"A", "B">>, <<"G", "#">> >>,
    << <<"B", "B">>, <<"A", "#">> >> }

\* aliases.get(name, name)
aliases_get(name) ==
  IF \E a \in aliases : a[1] = name
  THEN (CHOOSE a \in aliases : a[1] = name)[2]
  ELSE name

\* _pitch_class_index without upper(): the names matched case-sensitively
_pitch_class_index_cased(name) ==
  list_index(PITCH_CLASSES, aliases_get(strip(name)))

\* Optional[int]: the ValueError of PITCH_CLASSES.index is caught and None
\* returned.  `name or ""` is the identity on a str.
_pitch_class_index(name) ==
  list_index(PITCH_CLASSES, aliases_get(upper(strip(name))))

MAJOR == <<"m", "a", "j", "o", "r">>

MINOR == <<"m", "i", "n", "o", "r">>

\* _scale_intervals without lower(): only the spelling "minor" is minor
_scale_intervals_cased(mode) ==
  LET m == IF mode = <<>> THEN MAJOR ELSE mode
  IN  IF m = MINOR
      THEN <<0, 2, 3, 5, 7, 8, 10>>
      ELSE <<0, 2, 4, 5, 7, 9, 11>>

\* `mode or "major"` replaces an empty mode
_scale_intervals(mode) ==
  LET m == lower(IF mode = <<>> THEN MAJOR ELSE mode)
  IN  IF m = MINOR
      THEN <<0, 2, 3, 5, 7, 8, 10>>
      ELSE <<0, 2, 4, 5, 7, 9, 11>>

\* the key of the min() of degree_token_for_midi
cyclic_distance(pitch_class, d) ==
  LET up == (pitch_class - d) % 12
      down == (d - pitch_class) % 12
  IN  IF up < down THEN up ELSE down

\* closest_degree with the last minimal element winning the tie
closest_degree_last(degrees, pitch_class) ==
  LET last == CHOOSE i \in 1..Len(degrees) :
                /\ \A j \in 1..Len(degrees) :
                     cyclic_distance(pitch_class, degrees[i])
                       <= cyclic_distance(pitch_class, degrees[j])
                /\ \A j \in (i + 1)..Len(degrees) :
                     cyclic_distance(pitch_class, degrees[j])
                       > cyclic_distance(pitch_class, degrees[i])
  IN  degrees[last]

\* closest_degree taking the nearest degree at or above the pitch class
closest_degree_above(degrees, pitch_class) ==
  LET above == CHOOSE i \in 1..Len(degrees) :
                 \A j \in 1..Len(degrees) :
                   (degrees[i] - pitch_class) % 12
                     <= (degrees[j] - pitch_class) % 12
  IN  degrees[above]

\* min(degrees, key=...): the first element whose key is minimal
closest_degree(degrees, pitch_class) ==
  LET first == CHOOSE i \in 1..Len(degrees) :
                 /\ \A j \in 1..Len(degrees) :
                      cyclic_distance(pitch_class, degrees[i])
                        <= cyclic_distance(pitch_class, degrees[j])
                 /\ \A j \in 1..(i - 1) :
                      cyclic_distance(pitch_class, degrees[j])
                        > cyclic_distance(pitch_class, degrees[i])
  IN  degrees[first]

\* accidental_prefix reading the preference for every diff but 1
accidental_prefix_preferred(diff, accidental_pref) ==
  IF diff = 1 THEN <<"#">>
  ELSE IF accidental_pref = "sharps" THEN <<"#">> ELSE <<"b">>

accidental_prefix(diff, accidental_pref) ==
  IF diff = 1 THEN <<"#">>
  ELSE IF diff = 11 THEN <<"b">>
  ELSE IF accidental_pref = "sharps" THEN <<"#">> ELSE <<"b">>

\* degree_token_for_midi returning the 0-based position of a diatonic pitch
degree_token_zero_based(midi, key_tonic, mode, accidental_pref) ==
  LET found == _pitch_class_index(key_tonic)
      tonic_pc == IF IsNone(found) THEN 0 ELSE found.value
      pitch_class == midi % 12
      scale == _scale_intervals(mode)
      degrees == [i \in 1..Len(scale) |-> (tonic_pc + scale[i]) % 12]
  IN  IF list_contains(degrees, pitch_class)
      THEN int_str(list_index(degrees, pitch_class).value)
      ELSE LET closest == closest_degree(degrees, pitch_class)
               degree_idx == list_index(degrees, closest).value + 1
               diff == (pitch_class - closest) % 12
           IN  accidental_prefix(diff, accidental_pref) \o int_str(degree_idx)

\* degree_token_for_midi reading every pitch in the key of C
degree_token_in_c(midi, key_tonic, mode, accidental_pref) ==
  LET tonic_pc == 0
      pitch_class == midi % 12
      scale == _scale_intervals(mode)
      degrees == [i \in 1..Len(scale) |-> (tonic_pc + scale[i]) % 12]
  IN  IF list_contains(degrees, pitch_class)
      THEN int_str(list_index(degrees, pitch_class).value + 1)
      ELSE LET closest == closest_degree(degrees, pitch_class)
               degree_idx == list_index(degrees, closest).value + 1
               diff == (pitch_class - closest) % 12
           IN  accidental_prefix(diff, accidental_pref) \o int_str(degree_idx)

degree_token_for_midi(midi, key_tonic, mode, accidental_pref) ==
  LET found == _pitch_class_index(key_tonic)
      tonic_pc == IF IsNone(found) THEN 0 ELSE found.value
      pitch_class == midi % 12
      scale == _scale_intervals(mode)
      degrees == [i \in 1..Len(scale) |-> (tonic_pc + scale[i]) % 12]
  IN  IF list_contains(degrees, pitch_class)
      THEN int_str(list_index(degrees, pitch_class).value + 1)
      ELSE LET closest == closest_degree(degrees, pitch_class)
               degree_idx == list_index(degrees, closest).value + 1
               diff == (pitch_class - closest) % 12
           IN  accidental_prefix(diff, accidental_pref) \o int_str(degree_idx)

\* map_notes_to_numbers skipping every falsy midi (`if not midi`), 0 included
RECURSIVE map_notes_skip_falsy(_, _, _, _)
map_notes_skip_falsy(notes, key_tonic, mode, acc_pref) ==
  IF notes = <<>>
  THEN <<>>
  ELSE LET midi == get(Head(notes), "midi")
           rest == map_notes_skip_falsy(Tail(notes), key_tonic, mode, acc_pref)
       IN  IF IsNone(midi) \/ midi.value = 0
           THEN rest
           ELSE <<degree_token_for_midi(midi.value, key_tonic, mode, acc_pref)>>
                  \o rest

\* int(midi) is the identity on an int
RECURSIVE map_notes_to_numbers(_, _, _, _)
map_notes_to_numbers(notes, key_tonic, mode, acc_pref) ==
  IF notes = <<>>
  THEN <<>>
  ELSE LET midi == get(Head(notes), "midi")
           rest == map_notes_to_numbers(Tail(notes), key_tonic, mode, acc_pref)
       IN  IF IsNone(midi)
           THEN rest
           ELSE <<degree_token_for_midi(midi.value, key_tonic, mode, acc_pref)>>
                  \o rest

---------------------------------------------------------------------------
(* services/scoring.py *)

\* played[idx] if idx < len(played) else None
got_at(played, idx) ==
  IF idx < Len(played) THEN Some(played[idx + 1]) ELSE None

\* compare_rows stopping at the shorter of the two lists, as a loop over
\* zip(expected, played) would
compare_rows_zip(expected, played) ==
  [i \in 1..(IF Len(played) < Len(expected) THEN Len(played)
             ELSE Len(expected)) |->
     [expected |-> expected[i], got |-> got_at(played, i - 1),
      index |-> i - 1]]

\* what the for loop of compare_sequences sees at each position of expected
compare_rows(expected, played) ==
  [i \in 1..Len(expected) |->
     [expected |-> expected[i], got |-> got_at(played, i - 1),
      index |-> i - 1]]

\* the loop's two outcomes: got == exp counts a match, anything else appends
\* a record, in the order of the positions
compare_loop(expected, played) ==
  LET rows == compare_rows(expected, played)
  IN  [matches |->
         Len(SelectSeq(rows, LAMBDA w : w.got = Some(w.expected))),
       wrong_notes |->
         SelectSeq(rows, LAMBDA w : w.got # Some(w.expected))]

\* round_percent cutting the digits after the second decimal off
round_percent_floor(matches, n) == (10000 * matches) \div n

\* round((matches / n) * 100, 2), in hundredths: the nearest hundredth, a tie
\* going to the even one.  The float product is exact enough for this to be
\* the value Python returns for every n below 160, and for every larger n
\* when 10000 * matches / n is not halfway between two hundredths.
round_percent(matches, n) ==
  LET q == (10000 * matches) \div n
      r == (10000 * matches) % n
  IN  IF 2 * r < n THEN q
      ELSE IF 2 * r > n THEN q + 1
      ELSE IF q % 2 = 0 THEN q ELSE q + 1

\* compare_sequences taking the accuracy over the longer of the two lists
compare_sequences_longer(expected, played) ==
  IF expected = <<>>
  THEN <<0, <<>>>>
  ELSE LET loop == compare_loop(expected, played)
           n == IF Len(played) > Len(expected) THEN Len(played)
                ELSE Len(expected)
       IN  <<round_percent(loop.matches, n), loop.wrong_notes>>

\* compare_sequences scoring an empty target as a perfect one
compare_sequences_empty_full(expected, played) ==
  IF expected = <<>>
  THEN <<10000, <<>>>>
  ELSE LET loop == compare_loop(expected, played)
       IN  <<round_percent(loop.matches, Len(expected)), loop.wrong_notes>>

\* compare_sequences reporting the first mismatch alone
compare_sequences_first(expected, played) ==
  IF expected = <<>>
  THEN <<0, <<>>>>
  ELSE LET loop == compare_loop(expected, played)
       IN  <<round_percent(loop.matches, Len(expected)),
             IF loop.wrong_notes = <<>> THEN <<>>
             ELSE <<loop.wrong_notes[1]>> >>

\* (accuracy, wrong_notes)
compare_sequences(expected, played) ==
  IF expected = <<>>
  THEN <<0, <<>>>>
  ELSE LET loop == compare_loop(expected, played)
       IN  <<round_percent(loop.matches, Len(expected)), loop.wrong_notes>>

\* the text of a mismatch with the position counted from 0
mistake_clause_zero_based(w) ==
  LET got == get(w, "got")
  IN  <<"a", "t", " ">> \o int_str(w.index)
        \o <<":", " ", "e", "x", "p", "e", "c", "t", "e", "d", " ">>
        \o w.expected \o <<" ", "g", "o", "t", " ">>
        \o (IF IsNone(got) \/ got.value = <<>> THEN <<"n", "o", "n", "e">>
            ELSE got.value)

\* one element of the list comprehension of build_mistake_summary:
\* f"at {w['index']+1}: expected {w['expected']} got {w.get('got') or 'none'}";
\* `or` replaces None, and the empty string as well
mistake_clause(w) ==
  LET got == get(w, "got")
  IN  <<"a", "t", " ">> \o int_str(w.index + 1)
        \o <<":", " ", "e", "x", "p", "e", "c", "t", "e", "d", " ">>
        \o w.expected \o <<" ", "g", "o", "t", " ">>
        \o (IF IsNone(got) \/ got.value = <<>> THEN <<"n", "o", "n", "e">>
            ELSE got.value)

\* sep.join(items)
RECURSIVE join(_, _)
join(sep, items) ==
  IF items = <<>> THEN <<>>
  ELSE IF Len(items) = 1 THEN items[1]
  ELSE items[1] \o sep \o join(sep, Tail(items))

\* the summary of an empty list; the element "U+2014" stands for the one
\* character of that code point, an em dash
NO_MISTAKES ==
  <<"G", "r", "e", "a", "t", " ", "j", "o", "b">>
    \o <<"U+2014">>
    \o <<"n", "o", " ", "m", "i", "s", "t", "a", "k", "e", "s", " ",
         "d", "e", "t", "e", "c", "t", "e", "d", ".">>

\* build_mistake_summary keeping the last three records
build_mistake_summary_last(wrong_notes) ==
  IF wrong_notes = <<>>
  THEN [issues |-> <<>>, summary |-> NO_MISTAKES]
  ELSE LET n == Len(wrong_notes)
           top == SubSeq(wrong_notes, IF n > 3 THEN n - 2 ELSE 1, n)
       IN  [issues |-> top,
            summary |->
              join(<<";", " ">>,
                   [i \in 1..Len(top) |-> mistake_clause(top[i])])]

\* {"issues": ..., "summary": ...}
build_mistake_summary(wrong_notes) ==
  IF wrong_notes = <<>>
  THEN [issues |-> <<>>, summary |-> NO_MISTAKES]
  ELSE LET n == Len(wrong_notes)
           top == SubSeq(wrong_notes, 1, IF n > 3 THEN 3 ELSE n)
       IN  [issues |-> top,
            summary |->
              join(<<";", " ">>,
                   [i \in 1..Len(top) |-> mistake_clause(top[i])])]

\* the catalog of preset exercises, by identifier
EXPECTED_EXERCISES ==
  "c_major_scale_up" :>
    [name |-> "C Major Scale (up)",
     base_numbers |->
       << <<"1">>, <<"2">>, <<"3">>, <<"4">>, <<"5">>, <<"6">>, <<"7">>,
          <<"1">> >>,
     mode |-> MAJOR, tonic |-> <<"C">>] @@
  "c_major_scale_updown" :>
    [name |-> "C Major Scale (up/down)",
     base_numbers |->
       << <<"1">>, <<"2">>, <<"3">>, <<"4">>, <<"5">>, <<"6">>, <<"7">>,
          <<"1">>, <<"7">>, <<"6">>, <<"5">>, <<"4">>, <<"3">>, <<"2">>,
          <<"1">> >>,
     mode |-> MAJOR, tonic |-> <<"C">>] @@
  "arpeggio_1358_c" :>
    [name |-> "Arpeggio 1-3-5-8 in C",
     base_numbers |->
       << <<"1">>, <<"3">>, <<"5">>, <<"1">> >>,
     mode |-> MAJOR, tonic |-> <<"C">>] @@
  "ode_to_joy_simple" :>
    [name |-> "Ode to Joy (preset)",
     base_numbers |->
       << <<"3">>, <<"3">>, <<"4">>, <<"5">>, <<"5">>, <<"4">>, <<"3">>,
          <<"2">>, <<"1">>, <<"1">>, <<"2">>, <<"3">>, <<"3">>, <<"2">>,
          <<"2">> >>,
     mode |-> MAJOR, tonic |-> <<"C">>]

\* dict.get(key, default)
get_or(d, key, default) == IF key \in DOMAIN d THEN d[key] ELSE default

\* expected_numbers_for_exercise giving nothing outside the major mode
expected_numbers_major_only(exercise_id, tonic, mode) ==
  IF lower(mode) = MINOR THEN <<>>
  ELSE get_or(get_or(EXPECTED_EXERCISES, exercise_id, <<>>),
              "base_numbers", <<>>)

\* the stored list of the entry, or [] without one; tonic and mode are
\* not read
expected_numbers_for_exercise(exercise_id, tonic, mode) ==
  get_or(get_or(EXPECTED_EXERCISES, exercise_id, <<>>), "base_numbers", <<>>)

---------------------------------------------------------------------------
(* services/pd_library.py *)

\* how a call ends: with a value, or with an exception that leaves it
Return(v) == [raised |-> FALSE, value |-> v]

Raise(error) == [raised |-> TRUE, error |-> error]

PITCH_CLASS_ORDER ==
  << <<"C">>, <<"C", "#">>, <<"D">>, <<"D", "#">>, <<"E">>, <<"F">>,
     <<"F", "#">>, <<"G">>, <<"G", "#">>, <<"A">>, <<"A", "#">>, <<"B">> >>

is_digit(c) == \E d \in 1..10 : DigitChars[d] = c

\* the digits of an int literal, its underscores removed
digits_of(s) == SelectSeq(s, is_digit)

RECURSIVE digits_value(_)
digits_value(s) ==
  IF s = <<>> THEN 0
  ELSE 10 * digits_value(SubSeq(s, 1, Len(s) - 1))
         + ((CHOOSE d \in 1..10 : DigitChars[d] = s[Len(s)]) - 1)

\* int(s) of a str: blanks around it are dropped, a sign may lead, and the
\* rest is digits, single underscores allowed between them; None stands for
\* the ValueError of any other text
int_of_str(s) ==
  LET t == strip(s)
      signed == t # <<>> /\ Head(t) \in {"+", "-"}
      body == IF signed THEN Tail(t) ELSE t
      wellFormed ==
        /\ body # <<>>
        /\ \A i \in 1..Len(body) : is_digit(body[i]) \/ body[i] = "_"
        /\ is_digit(body[1])
        /\ is_digit(body[Len(body)])
        /\ \A i \in 1..(Len(body) - 1) : ~(body[i] = "_" /\ body[i + 1] = "_")
  IN  IF ~wellFormed THEN None
      ELSE IF signed /\ Head(t) = "-" THEN Some(-digits_value(digits_of(body)))
      ELSE Some(digits_value(digits_of(body)))

\* list[i] for an int i: a negative i counts from the end; None stands for
\* the IndexError of a position outside the list
list_item(list, i) ==
  IF i \in 0..(Len(list) - 1) THEN Some(list[i + 1])
  ELSE IF i \in (-Len(list))..(-1) THEN Some(list[Len(list) + i + 1])
  ELSE None

\* number_to_note_name dropping the accidental of the token
number_to_note_name_natural(token, tonic, mode) ==
  LET found == list_index(PITCH_CLASS_ORDER, upper(tonic))
      scale == IF mode = MAJOR THEN <<0, 2, 4, 5, 7, 9, 11>>
               ELSE <<0, 2, 3, 5, 7, 8, 10>>
      prefixed == token # <<>> /\ Head(token) \in {"#", "b"}
      rest == IF prefixed THEN Tail(token) ELSE token
      parsed == int_of_str(rest)
      degree == IF IsNone(parsed) THEN 1 ELSE parsed.value
      interval == list_item(scale, degree - 1)
  IN  IF IsNone(found) THEN Raise("ValueError")
      ELSE IF IsNone(interval) THEN Raise("IndexError")
      ELSE Return(PITCH_CLASS_ORDER[((found.value + interval.value) % 12) + 1]
                    \o <<"4">>)

\* number_to_note_name reading every degree off the major scale
number_to_note_name_major(token, tonic, mode) ==
  LET found == list_index(PITCH_CLASS_ORDER, upper(tonic))
      scale == <<0, 2, 4, 5, 7, 9, 11>>
      accidental == IF token # <<>> /\ Head(token) = "#" THEN 1
                    ELSE IF token # <<>> /\ Head(token) = "b" THEN -1
                    ELSE 0
      rest == IF accidental # 0 THEN Tail(token) ELSE token
      parsed == int_of_str(rest)
      degree == IF IsNone(parsed) THEN 1 ELSE parsed.value
      interval == list_item(scale, degree - 1)
  IN  IF IsNone(found) THEN Raise("ValueError")
      ELSE IF IsNone(interval) THEN Raise("IndexError")
      ELSE Return(PITCH_CLASS_ORDER[
                    ((found.value + interval.value + accidental) % 12) + 1]
                    \o <<"4">>)

\* The tonic is looked up by its upper-cased text alone and the lookup's
\* ValueError is not caught; the mode is "major" or anything else; the
\* ValueError of int() alone is caught, so a degree outside the scale list
\* leaves by the IndexError of scale[degree - 1].
number_to_note_name(token, tonic, mode) ==
  LET found == list_index(PITCH_CLASS_ORDER, upper(tonic))
      scale == IF mode = MAJOR THEN <<0, 2, 4, 5, 7, 9, 11>>
               ELSE <<0, 2, 3, 5, 7, 8, 10>>
      accidental == IF token # <<>> /\ Head(token) = "#" THEN 1
                    ELSE IF token # <<>> /\ Head(token) = "b" THEN -1
                    ELSE 0
      rest == IF accidental # 0 THEN Tail(token) ELSE token
      parsed == int_of_str(rest)
      degree == IF IsNone(parsed) THEN 1 ELSE parsed.value
      interval == list_item(scale, degree - 1)
  IN  IF IsNone(found) THEN Raise("ValueError")
      ELSE IF IsNone(interval) THEN Raise("IndexError")
      ELSE Return(PITCH_CLASS_ORDER[
                    ((found.value + interval.value + accidental) % 12) + 1]
                    \o <<"4">>)

---------------------------------------------------------------------------
(* app.py: the notes-to-numbers route *)

\* a JSON value that is a list, and one that is not
JsonList(items) == [is_list |-> TRUE, items |-> items]

JsonOther == [is_list |-> FALSE]

\* The view function of /api/notes-to-numbers on the JSON body `data` of a
\* request: the reply's status and body.  The two lists of the reply are
\* built apart: map_notes_to_numbers skips a note without midi, the list
\* comprehension of note names keeps it as "".
notes_to_numbers(method, data) ==
  IF method = "GET"
  THEN [status |-> 200, message |-> "POST notes to transcribe."]
  ELSE LET key_tonic == get_or(data, "key_tonic", <<"C">>)
           mode == get_or(data, "mode", MAJOR)
           acc_pref == get_or(data, "accidental_pref", "sharps")
           notes == get_or(data, "notes", JsonList(<<>>))
       IN  IF ~notes.is_list
           THEN [status |-> 400, error |-> "invalid_input"]
           ELSE [status |-> 200,
                 numbers |->
                   map_notes_to_numbers(notes.items, key_tonic, mode,
                                        acc_pref),
                 note_names |->
                   [i \in 1..Len(notes.items) |->
                      midi_to_note_name(get(notes.items[i], "midi"))]]

---------------------------------------------------------------------------
(* app.py: the rate limiter *)

\* the test of line 96 letting a full bucket take one request more
bucket_full_after(bucket) == bucket["count"] > RATE_LIMIT_PER_MIN

\* bucket["count"] >= RATE_LIMIT_PER_MIN
bucket_full(bucket) == bucket["count"] >= RATE_LIMIT_PER_MIN

\* request.remote_addr or "unknown"
client_ip(remote_addr) ==
  IF IsNone(remote_addr) \/ remote_addr.value = "" THEN "unknown"
  ELSE remote_addr.value

\* the bucket the wrapper works on at clock value t: the stored one, or a
\* new one when none is stored or the stored one's reset time has passed
current_bucket(ip, t) ==
  LET bucket == get_or(rate_state, ip, [count |-> 0, reset |-> t + 60])
  IN  IF t > bucket["reset"] THEN [count |-> 0, reset |-> t + 60] ELSE bucket

\* the reply of the wrapper to a request over the limit
TOO_MANY == [status |-> 429, error |-> "rate_limited"]

---------------------------------------------------------------------------
(* The calls.  Both components are stateless: a behaviour is one call, whose *)
(* arguments the initial state draws and whose result the action computes.  *)

MidiSpan == 13

MaxNameLen == 2

MaxNotes == 3

MaxExpected == 3

LongLen == 20001

MaxSummary == 5

MaxEdited == 4

MaxRequests == 5

MaxLimit == 2

\* every string of at most n characters of the alphabet
Strings(alphabet, n) == UNION {[1..k -> alphabet] : k \in 0..n}

MidiValues == (-MidiSpan..MidiSpan) \cup {60, 61, 62, 127, 128}

\* the twelve pitches from middle C up
MiddleOctave == 60..71

TonicAlphabet ==
  {"A", "B", "C", "D", "E", "F", "G", "a", "b", "c", "d", "e", "f", "g",
   "#", " ", "H"}

TonicNames == Strings(TonicAlphabet, MaxNameLen)

\* the twelve names of PITCH_CLASSES and the five flat names, as usually typed
KeyTonics ==
  {PITCH_CLASSES[i] : i \in 1..12}
    \cup {<<"D", "b">>, <<"E", "b">>, <<"G", "b">>, <<"A", "b">>, <<"B", "b">>}

\* "minor" in every letter case
MinorSpellings ==
  {[i \in 1..5 |-> IF i \in S THEN upper_char(MINOR[i]) ELSE MINOR[i]] :
     S \in SUBSET (1..5)}

ModeNames ==
  MinorSpellings
    \cup {<<>>, MAJOR, upper(MAJOR), <<"m", "i", "n">>,
          <<"m", "i", "n", "o", "r", " ">>,
          <<"d", "o", "r", "i", "a", "n">>}

Prefs == {"sharps", "flats"}

Notes ==
  {[midi |-> Some(0)], [midi |-> Some(60)], [midi |-> Some(61)],
   [midi |-> Some(-1)], [midi |-> None], [t0_ms |-> 0]}

NoteLists == UNION {[1..k -> Notes] : k \in 0..MaxNotes}

ExpectedTokens == {<<"1">>, <<"2">>, <<"3">>}

PlayedTokens == ExpectedTokens \cup {<<"4">>, <<"#", "3">>}

\* what may follow the accidental of a token handed to number_to_note_name
TokenRemainders ==
  {<<DigitChars[d]>> : d \in 1..10}
    \cup {<<>>, <<"x">>, <<"#">>, <<"-", "3">>, <<"-", "7">>, <<"1", "2">>,
          <<"+", "3">>, <<" ", "2">>, <<"1", "_", "0">>, <<"_", "1">>}

NumberTokens ==
  {prefix \o rest : prefix \in {<<>>, <<"#">>, <<"b">>},
                    rest \in TokenRemainders}

\* the usual names, the same in lower case, and names no list holds
NoteNameTonics ==
  KeyTonics \cup {lower(t) : t \in KeyTonics}
    \cup {<<>>, <<"H">>, <<" ", "C">>}

NoteNameModes ==
  {MAJOR, MINOR, upper(MAJOR), upper(MINOR), <<"M", "i", "n", "o", "r">>,
   <<>>, <<"d", "o", "r", "i", "a", "n">>}

NoteNameCalls ==
  [op : {"number_to_note_name"}, token : NumberTokens,
   tonic : NoteNameTonics, mode : NoteNameModes]

\* the JSON bodies posted to the route: with every key, with the notes
\* alone, without the notes, and with notes that are no list
RequestBodies ==
  [key_tonic : {<<"A">>, <<"B", "b">>}, mode : {MAJOR, MINOR},
   accidental_pref : Prefs,
   notes : {JsonList(n) : n \in NoteLists} \cup {JsonOther}]
    \cup [notes : {JsonList(n) : n \in NoteLists}]
    \cup [mode : {MAJOR, MINOR}]

RouteCalls ==
  [op : {"notes_to_numbers"}, method : {"POST"}, data : RequestBodies]
    \cup [op : {"notes_to_numbers"}, method : {"GET"},
          data : [mode : {MAJOR}]]

MapperCalls ==
  [op : {"midi_to_note_name"},
   midi : {None} \cup {Some(m) : m \in MidiValues}]
    \cup [op : {"degree_token_for_midi"}, midi : MidiValues,
          key_tonic : KeyTonics, mode : ModeNames, accidental_pref : Prefs]
    \cup [op : {"degree_token_for_midi"}, midi : MiddleOctave,
          key_tonic : TonicNames, mode : {MAJOR, MINOR},
          accidental_pref : {"sharps"}]
    \cup [op : {"map_notes_to_numbers"}, notes : NoteLists,
          key_tonic : {<<"C">>, <<"A">>, <<"B", "b">>},
          mode : {MAJOR, MINOR}, acc_pref : Prefs]
    \cup NoteNameCalls
    \cup RouteCalls

\* a long melody of one repeated token, played in full, with the last note
\* wrong, or with the last note missing
LongCalls ==
  UNION
    {LET expected == [i \in 1..n |-> <<"1">>]
     IN  [op : {"compare_sequences"}, expected : {expected},
          played : {expected,
                    [expected EXCEPT ![n] = <<"2">>],
                    SubSeq(expected, 1, n - 1)}] :
       n \in (LongLen - 2)..LongLen}

SummaryTokens == {<<"1">>, <<"b", "7">>}

\* mismatch records as a caller may hand them over, in any order
LooseRecords ==
  {[expected |-> <<"1">>, got |-> Some(<<"2">>), index |-> 9],
   [expected |-> <<"2">>, got |-> None, index |-> 0],
   [expected |-> <<"3">>, got |-> Some(<<"#", "3">>), index |-> 10]}

\* the mismatch list coach_exercise hands to build_mistake_summary, with the
\* two sequences it was computed from, and lists of records in any order
SummaryCalls ==
  {[op |-> "build_mistake_summary", expected |-> e, played |-> p,
    wrong_notes |-> compare_sequences(e, p)[2]] :
     e \in Strings(SummaryTokens, MaxSummary) \ {<<>>},
     p \in Strings(SummaryTokens, MaxSummary)}
    \cup [op : {"build_mistake_summary"},
          wrong_notes : Strings(LooseRecords, MaxSummary - 1)]

\* the four identifiers of the catalog and some that are not in it
ExerciseIds ==
  DOMAIN EXPECTED_EXERCISES \cup {"", "C_MAJOR_SCALE_UP", "twinkle"}

ExerciseCalls ==
  [op : {"expected_numbers_for_exercise"}, exercise_id : ExerciseIds,
   tonic : KeyTonics \cup {<<>>, <<"H">>}, mode : ModeNames]

\* a target melody, and the same melody played with one token put in at
\* position k, or with the token at position k left out
EditedCalls ==
  UNION
    {UNION
       {[op : {"compare_sequences"}, expected : {e}, edit : {"insert"},
         k : {k},
         played : {SubSeq(e, 1, k) \o <<t>> \o SubSeq(e, k + 1, Len(e)) :
                     t \in SummaryTokens}]
          \cup (IF k < Len(e)
                THEN {[op |-> "compare_sequences", expected |-> e,
                       edit |-> "delete", k |-> k,
                       played |->
                         SubSeq(e, 1, k) \o SubSeq(e, k + 2, Len(e))]}
                ELSE {}) :
          k \in 0..Len(e)} :
       e \in Strings(SummaryTokens, MaxEdited) \ {<<>>}}

ScorerCalls ==
  [op : {"compare_sequences"},
   expected : Strings(ExpectedTokens, MaxExpected),
   played : Strings(PlayedTokens, MaxExpected + 1)]
    \cup LongCalls
    \cup SummaryCalls
    \cup ExerciseCalls
    \cup EditedCalls

\* request.remote_addr: an address, or none
RemoteAddrs == {Some("10.0.0.1"), None}

\* the seconds by which time.time() has advanced when the next request
\* reads it
ClockSteps == {0, 1, 60}

\* no request has reached a limited route
LimiterIdle ==
  /\ rate_state = <<>>
  /\ now = 0
  /\ log = <<>>
  /\ fn_calls = 0

MapperInit ==
  /\ call \in MapperCalls
  /\ result = None
  /\ pc = "ready"
  /\ RATE_LIMIT_PER_MIN = 120
  /\ LimiterIdle

ScorerInit ==
  /\ call \in ScorerCalls
  /\ result = None
  /\ pc = "ready"
  /\ RATE_LIMIT_PER_MIN = 120
  /\ LimiterIdle

\* the server after create_app, with the limit the environment sets
RateInit ==
  /\ call = None
  /\ result = None
  /\ pc = "ready"
  /\ RATE_LIMIT_PER_MIN \in 0..MaxLimit
  /\ LimiterIdle

MidiToNoteName ==
  /\ pc = "ready"
  /\ call.op = "midi_to_note_name"
  /\ result' = midi_to_note_name(call.midi)
  /\ pc' = "done"
  /\ UNCHANGED <<call, limiter>>

DegreeTokenForMidi ==
  /\ pc = "ready"
  /\ call.op = "degree_token_for_midi"
  /\ result' = degree_token_for_midi(call.midi, call.key_tonic, call.mode,
                                     call.accidental_pref)
  /\ pc' = "done"
  /\ UNCHANGED <<call, limiter>>

MapNotesToNumbers ==
  /\ pc = "ready"
  /\ call.op = "map_notes_to_numbers"
  /\ result' = map_notes_to_numbers(call.notes, call.key_tonic, call.mode,
                                    call.acc_pref)
  /\ pc' = "done"
  /\ UNCHANGED <<call, limiter>>

CompareSequences ==
  /\ pc = "ready"
  /\ call.op = "compare_sequences"
  /\ result' = compare_sequences(call.expected, call.played)
  /\ pc' = "done"
  /\ UNCHANGED <<call, limiter>>

BuildMistakeSummary ==
  /\ pc = "ready"
  /\ call.op = "build_mistake_summary"
  /\ result' = build_mistake_summary(call.wrong_notes)
  /\ pc' = "done"
  /\ UNCHANGED <<call, limiter>>

ExpectedNumbersForExercise ==
  /\ pc = "ready"
  /\ call.op = "expected_numbers_for_exercise"
  /\ result' = expected_numbers_for_exercise(call.exercise_id, call.tonic,
                                             call.mode)
  /\ pc' = "done"
  /\ UNCHANGED <<call, limiter>>

NumberToNoteName ==
  /\ pc = "ready"
  /\ call.op = "number_to_note_name"
  /\ result' = number_to_note_name(call.token, call.tonic, call.mode)
  /\ pc' = "done"
  /\ UNCHANGED <<call, limiter>>

NotesToNumbers ==
  /\ pc = "ready"
  /\ call.op = "notes_to_numbers"
  /\ result' = notes_to_numbers(call.method, call.data)
  /\ pc' = "done"
  /\ UNCHANGED <<call, limiter>>

\* One request to the limited route /api/transcribe/notes-to-numbers, from
\* the wrapper's first line to the reply: over the limit it is answered 429
\* and nothing is stored; otherwise the bucket, one request fuller, is
\* stored under the client's address and the route's function runs.
RateLimited ==
  \E remote_addr \in RemoteAddrs, step \in ClockSteps :
    LET ip == client_ip(remote_addr)
        t == now + step
        bucket == current_bucket(ip, t)
    IN  /\ pc = "ready"
        /\ Len(log) < MaxRequests
        /\ call' = [op |-> "notes_to_numbers", method |-> "GET",
                    remote_addr |-> remote_addr]
        /\ now' = t
        /\ IF bucket_full(bucket)
           THEN /\ result' = TOO_MANY
                /\ UNCHANGED <<rate_state, fn_calls>>
           ELSE /\ rate_state' =
                     (ip :> [bucket EXCEPT !["count"] = @ + 1]) @@ rate_state
                /\ result' = notes_to_numbers("GET", <<>>)
                /\ fn_calls' = fn_calls + 1
        /\ log' = Append(log, [ip |-> ip, now |-> t,
                               reset |-> bucket["reset"],
                               status |-> result'.status])
        /\ UNCHANGED <<pc, RATE_LIMIT_PER_MIN>>

MapperNext ==
  \/ MidiToNoteName
  \/ DegreeTokenForMidi
  \/ MapNotesToNumbers
  \/ NumberToNoteName
  \/ NotesToNumbers

ScorerNext ==
  CompareSequences \/ BuildMistakeSummary \/ ExpectedNumbersForExercise

RateNext == RateLimited

MapperSpec == MapperInit /\ [][MapperNext]_vars

ScorerSpec == ScorerInit /\ [][ScorerNext]_vars

RateSpec == RateInit /\ [][RateNext]_vars

---------------------------------------------------------------------------
(* Reading a result back *)

Done(op) == pc = "done" /\ call.op = op

\* the accidental of a token: "#", "b" or nothing
TokenPrefix(t) ==
  IF t # <<>> /\ Head(t) \in {"#", "b"} THEN <<Head(t)>> ELSE <<>>

\* what follows the accidental
TokenDigits(t) == SubSeq(t, Len(TokenPrefix(t)) + 1, Len(t))

IsNumeral(s) ==
  /\ s # <<>>
  /\ \A i \in 1..Len(s) : \E d \in 0..9 : DigitChars[d + 1] = s[i]

DigitValue(c) == CHOOSE d \in 0..9 : DigitChars[d + 1] = c

RECURSIVE NumeralValue(_)
NumeralValue(s) ==
  IF Len(s) = 1
  THEN DigitValue(s[1])
  ELSE 10 * NumeralValue(SubSeq(s, 1, Len(s) - 1)) + DigitValue(s[Len(s)])

\* an optional accidental and a degree number 1..7
IsDegreeToken(t) ==
  /\ IsNumeral(TokenDigits(t))
  /\ NumeralValue(TokenDigits(t)) \in 1..7

TokenDegree(t) == NumeralValue(TokenDigits(t))

\* the seven diatonic pitch classes of the key of a call, degree by degree
DegreePC(key_tonic, mode) ==
  LET found == _pitch_class_index(key_tonic)
      tonicIndex == IF IsNone(found) THEN 0 ELSE found.value
      scaleInterval == _scale_intervals(mode)
  IN  [i \in 1..7 |-> (tonicIndex + scaleInterval[i]) % 12]

\* the least number of semitone steps, up or down, from pitch class a to b
SemitoneDistance(a, b) ==
  CHOOSE n \in 0..6 :
    /\ (a + n) % 12 = b % 12 \/ (b + n) % 12 = a % 12
    /\ \A k \in 0..(n - 1) : (a + k) % 12 # b % 12 /\ (b + k) % 12 # a % 12

---------------------------------------------------------------------------
(* Claims *)

C2_NearestDegree ==
  Done("degree_token_for_midi") =>
    LET degreePC == DegreePC(call.key_tonic, call.mode)
        pitchClass == call.midi % 12
        dist(i) == SemitoneDistance(pitchClass, degreePC[i])
        d == TokenDegree(result)
        diff == (pitchClass - degreePC[d]) % 12
    IN  /\ (\A i \in 1..7 : degreePC[i] # pitchClass) =>
             /\ IsDegreeToken(result)
             /\ \A j \in 1..7 : dist(d) <= dist(j)
             /\ \A j \in 1..(d - 1) : dist(j) > dist(d)
             /\ diff = 1 => TokenPrefix(result) = <<"#">>
             /\ diff = 11 => TokenPrefix(result) = <<"b">>
        /\ (call.midi = 61 /\ call.key_tonic = <<"C">> /\ call.mode = MAJOR)
             => result = <<"#", "1">>
        /\ (call.midi = 61 /\ call.key_tonic = <<"A">> /\ call.mode = MINOR)
             => TokenPrefix(result) = <<"#">>

C2_Witness ==
  /\ Done("degree_token_for_midi")
  /\ call.midi = 61 /\ call.key_tonic = <<"A">> /\ call.mode = MINOR
  /\ result = <<"#", "3">>

\* position i (0-based) of expected is not matched by played
Mismatch(expected, played, i) ==
  i >= Len(played) \/ played[i + 1] # expected[i + 1]

Abs(x) == IF x < 0 THEN -x ELSE x

\* C3: for a non-empty expected sequence compare_sequences returns one
\* mismatch record for exactly the positions i of expected where played[i] is
\* absent (got = null) or is not the token expected[i]; a record carries the
\* index, expected[i] and the played token; the records are in strictly
\* increasing index order; matches plus records make len(expected).
C3_MismatchRecords ==
  (Done("compare_sequences") /\ call.expected # <<>>) =>
    LET expected == call.expected
        played == call.played
        records == result[2]
        matched == {i \in 0..(Len(expected) - 1) :
                      ~Mismatch(expected, played, i)}
    IN  /\ \A i \in 0..(Len(expected) - 1) :
             Cardinality({k \in 1..Len(records) : records[k].index = i})
               = IF Mismatch(expected, played, i) THEN 1 ELSE 0
        /\ \A k \in 1..Len(records) :
             LET i == records[k].index
             IN  /\ i \in 0..(Len(expected) - 1)
                 /\ records[k].expected = expected[i + 1]
                 /\ records[k].got = IF i < Len(played)
                                      THEN Some(played[i + 1])
                                      ELSE None
        /\ \A k \in 1..(Len(records) - 1) :
             records[k].index < records[k + 1].index
        /\ Cardinality(matched) + Len(records) = Len(expected)

C3_Witness ==
  /\ Done("compare_sequences")
  /\ call.expected = << <<"1">>, <<"2">>, <<"3">> >>
  /\ call.played = << <<"1">>, <<"4">> >>
  /\ result[2] = << [expected |-> <<"2">>, got |-> Some(<<"4">>), index |-> 1],
                    [expected |-> <<"3">>, got |-> None, index |-> 2] >>

\* C4 as claimed: for a non-empty expected sequence the accuracy is
\* 100 * matches / len(expected) rounded to 2 decimal places, with matches =
\* len(expected) minus the number of mismatch records; it lies between 0.0
\* and 100.0 and is 100.0 exactly when the mismatch list is empty.
C4_Original ==
  (Done("compare_sequences") /\ call.expected # <<>>) =>
    LET n == Len(call.expected)
        accuracy == result[1]
        matches == n - Len(result[2])
    IN  /\ 2 * Abs(n * accuracy - 10000 * matches) <= n
        /\ accuracy \in 0..10000
        /\ accuracy = 10000 <=> result[2] = <<>>
        /\ (matches = 2 /\ n = 3) => accuracy = 6667

\* C4, amended: for a non-empty expected sequence the accuracy is
\* 100 * matches / len(expected) rounded to 2 decimal places, with matches =
\* len(expected) minus the number of mismatch records; it lies between 0.0
\* and 100.0; it is 100.0 whenever the mismatch list is empty and, for fewer
\* than 20000 expected tokens, only then.  2 matches out of 3 give 66.67.
C4_Accuracy ==
  (Done("compare_sequences") /\ call.expected # <<>>) =>
    LET n == Len(call.expected)
        accuracy == result[1]
        matches == n - Len(result[2])
    IN  /\ 2 * Abs(n * accuracy - 10000 * matches) <= n
        /\ accuracy \in 0..10000
        /\ result[2] = <<>> => accuracy = 10000
        /\ (n < 20000 /\ accuracy = 10000) => result[2] = <<>>
        /\ (matches = 2 /\ n = 3) => accuracy = 6667

C4_Witness ==
  /\ Done("compare_sequences")
  /\ call.expected = << <<"1">>, <<"2">>, <<"3">> >>
  /\ call.played = << <<"1">>, <<"2">>, <<"4">> >>
  /\ result[1] = 6667
  /\ Len(result[2]) = 1

\* the note carries a midi value: the key is present and its value not null
HasMidi(note) == "midi" \in DOMAIN note /\ ~note.midi.is_none

\* C5: map_notes_to_numbers returns, in input order, one token per note whose
\* midi is present and not null, the degree_token_for_midi of that midi with
\* the given tonic, mode and preference; the other notes contribute nothing,
\* a note with midi 0 is mapped, and the output is as long as the number of
\* notes with a midi.
C5_MapNotes ==
  Done("map_notes_to_numbers") =>
    LET notes == call.notes
        kept == {i \in 1..Len(notes) : HasMidi(notes[i])}
        \* the place in the output of the note at input position i
        place(i) == Cardinality({j \in kept : j <= i})
    IN  /\ Len(result) = Cardinality(kept)
        /\ \A i \in kept :
             result[place(i)] =
               degree_token_for_midi(notes[i].midi.value, call.key_tonic,
                                     call.mode, call.acc_pref)
        /\ \A i \in kept : notes[i].midi.value = 0 => place(i) \in 1..Len(result)

C5_Witness ==
  /\ Done("map_notes_to_numbers")
  /\ call.notes = <<[midi |-> Some(0)], [midi |-> None], [midi |-> Some(61)]>>
  /\ call.key_tonic = <<"C">> /\ call.mode = MAJOR
  /\ result = << <<"1">>, <<"#", "1">> >>

\* C6: played tokens beyond len(expected) never change the result:
\* compare_sequences(expected, played) is compare_sequences(expected, the
\* first len(expected) tokens of played), accuracy and mismatch list alike.
C6_ExtraIgnored ==
  Done("compare_sequences") =>
    LET n == IF Len(call.played) < Len(call.expected)
             THEN Len(call.played)
             ELSE Len(call.expected)
    IN  result = compare_sequences(call.expected, SubSeq(call.played, 1, n))

C6_Witness ==
  /\ Done("compare_sequences")
  /\ call.expected = << <<"1">>, <<"2">> >>
  /\ call.played = << <<"1">>, <<"2">>, <<"4">> >>
  /\ result = <<10000, <<>>>>

\* C7: when the expected sequence is empty compare_sequences returns accuracy
\* 0.0 and an empty mismatch list, whatever was played.
C7_EmptyExpected ==
  (Done("compare_sequences") /\ call.expected = <<>>) =>
    result = <<0, <<>>>>

C7_Witness ==
  /\ Done("compare_sequences")
  /\ call.expected = <<>>
  /\ call.played = << <<"1">>, <<"2">> >>
  /\ result = <<0, <<>>>>

\* every spelling of s that differs from it in letter case only
CaseVariants(s) ==
  {[i \in 1..Len(s) |-> IF i \in S THEN upper_char(s[i]) ELSE lower_char(s[i])] :
     S \in SUBSET (1..Len(s))}

\* the flat names and their sharp spellings
FlatAliases ==
  { << <<"D", "b">>, <<"C", "#">> >>, << <<"E", "b">>, <<"D", "#">> >>,
    << <<"G", "b">>, <<"F", "#">> >>, << <<"A", "b">>, <<"G", "#">> >>,
    << <<"B", "b">>, <<"A", "#">> >> }

\* the twelve pitch-class names and the five flat names, in upper case
KnownNames ==
  {upper(PITCH_CLASSES[i]) : i \in 1..12} \cup {upper(a[1]) : a \in FlatAliases}

\* a tonic name is recognized when, surrounding blanks apart, it is one of
\* the twelve pitch-class names or one of the five flat names in any case
Recognized(name) == upper(strip(name)) \in KnownNames

\* C8: degree_token_for_midi resolves the tonic name whatever its letter
\* case, reads Db, Eb, Gb, Ab, Bb as C#, D#, F#, G#, A#, and treats every
\* unrecognized name, the empty one included, as C: the token for an alias is
\* the token for its sharp spelling in any case, and the token for an
\* unrecognized name is the token for "C".
C8_TonicNames ==
  Done("degree_token_for_midi") =>
    LET token(tonic) == degree_token_for_midi(call.midi, tonic, call.mode,
                                              call.accidental_pref)
    IN  /\ \A v \in CaseVariants(call.key_tonic) : result = token(v)
        /\ \A a \in FlatAliases :
             upper(call.key_tonic) = upper(a[1]) =>
               \A v \in CaseVariants(a[2]) : result = token(v)
        /\ ~Recognized(call.key_tonic) => result = token(<<"C">>)

C8_Witness ==
  /\ Done("degree_token_for_midi")
  /\ call.midi = 61 /\ call.key_tonic = <<"d", "b">> /\ call.mode = MAJOR
  /\ result = <<"1">>

C8_WitnessUnrecognized ==
  /\ Done("degree_token_for_midi")
  /\ call.midi = 62 /\ call.key_tonic = <<"H">> /\ call.mode = MAJOR
  /\ result = <<"2">>

\* C9: degree_token_for_midi returns a token for every midi, negative or
\* above 127, every tonic and every mode; "minor" in any letter case selects
\* the intervals {0,2,3,5,7,8,10} and every other mode, the empty one
\* included, selects {0,2,4,5,7,9,11}.
C9_TotalAndModes ==
  Done("degree_token_for_midi") =>
    LET found == _pitch_class_index(call.key_tonic)
        tonicIndex == IF IsNone(found) THEN 0 ELSE found.value
        above == (call.midi - tonicIndex) % 12
        intervals == IF call.mode \in MinorSpellings
                     THEN {0, 2, 3, 5, 7, 8, 10}
                     ELSE {0, 2, 4, 5, 7, 9, 11}
    IN  /\ IsDegreeToken(result)
        /\ (TokenPrefix(result) = <<>>) <=> (above \in intervals)
        /\ above \in intervals =>
             TokenDegree(result) = Cardinality({x \in intervals : x <= above})

C9_Witness ==
  /\ Done("degree_token_for_midi")
  /\ call.midi = -1 /\ call.key_tonic = <<"C">>
  /\ call.mode = <<"M", "I", "N", "O", "R">>
  /\ result = <<"b", "1">>

C9_WitnessAbove127 ==
  /\ Done("degree_token_for_midi")
  /\ call.midi = 128 /\ call.key_tonic = <<"C">> /\ call.mode = <<>>
  /\ result = <<"#", "5">>

\* the position of the octave in a note name: its first sign or digit
OctaveStart(s) ==
  CHOOSE i \in 1..(Len(s) + 1) :
    /\ i <= Len(s) => (s[i] = "-" \/ IsNumeral(<<s[i]>>))
    /\ \A j \in 1..(i - 1) : s[j] # "-" /\ ~IsNumeral(<<s[j]>>)

NoteNamePart(s) == SubSeq(s, 1, OctaveStart(s) - 1)

NoteOctave(s) ==
  LET digits == SubSeq(s, OctaveStart(s), Len(s))
  IN  IF Head(digits) = "-"
      THEN -NumeralValue(Tail(digits))
      ELSE NumeralValue(digits)

\* C10: midi_to_note_name returns the empty string for null and otherwise
\* the pitch-class name at index midi mod 12 followed by the octave
\* floor(midi / 12) - 1, negative midi included: 60 is "C4", 61 is "C#4",
\* and 12 more keep the name and raise the octave by exactly 1.
C10_NoteName ==
  Done("midi_to_note_name") =>
    IF call.midi.is_none
    THEN result = <<>>
    ELSE LET m == call.midi.value
             name == NoteNamePart(result)
             octave == NoteOctave(result)
             higher == midi_to_note_name(Some(m + 12))
         IN  /\ \E p \in 0..11 :
                  /\ PITCH_CLASSES[p + 1] = name
                  /\ m = 12 * (octave + 1) + p
             /\ m = 60 => result = <<"C", "4">>
             /\ m = 61 => result = <<"C", "#", "4">>
             /\ NoteNamePart(higher) = name
             /\ NoteOctave(higher) = octave + 1

C10_Witness ==
  /\ Done("midi_to_note_name")
  /\ call.midi = Some(-1)
  /\ result = <<"B", "-", "2">>

C10_WitnessNull ==
  /\ Done("midi_to_note_name")
  /\ call.midi = None
  /\ result = <<>>

---------------------------------------------------------------------------
(* The mistake summary *)

Min(a, b) == IF a < b THEN a ELSE b

\* the call is the one coach_exercise makes, on the list compare_sequences
\* returned for call.expected and call.played
FromComparison == "expected" \in DOMAIN call

\* C11: build_mistake_summary keeps in 'issues' exactly the first min(3, n)
\* records of its input, in their given order, and nothing else (an empty
\* input gives empty issues); when the input is the mismatch list of
\* compare_sequences, these are the mismatches with the lowest indices, at
\* most three of them.
C11_FirstThree ==
  Done("build_mistake_summary") =>
    LET wrong_notes == call.wrong_notes
        issues == result.issues
        kept == Min(3, Len(wrong_notes))
    IN  /\ Len(issues) = kept
        /\ \A i \in 1..kept : issues[i] = wrong_notes[i]
        /\ FromComparison =>
             LET positions == {i \in 0..(Len(call.expected) - 1) :
                                 Mismatch(call.expected, call.played, i)}
                 lowest == {i \in positions :
                              Cardinality({j \in positions : j < i}) < 3}
             IN  /\ {issues[k].index : k \in 1..kept} = lowest
                 /\ \A k \in 1..(kept - 1) :
                      issues[k].index < issues[k + 1].index

\* five mismatches, of which the first three are kept
C11_Witness ==
  /\ Done("build_mistake_summary")
  /\ FromComparison
  /\ Len(call.wrong_notes) = 5
  /\ Len(result.issues) = 3
  /\ {result.issues[k].index : k \in 1..3} = {0, 1, 2}

\* records in no order of index: the first three, as given
C11_WitnessLoose ==
  /\ Done("build_mistake_summary")
  /\ ~FromComparison
  /\ Len(call.wrong_notes) = 4
  /\ call.wrong_notes[1].index = 10
  /\ call.wrong_notes[4].index = 0
  /\ result.issues = SubSeq(call.wrong_notes, 1, 3)

\* the clause the summary is to hold for a record
ClauseOf(w) ==
  <<"a", "t", " ">> \o nat_str(w.index + 1)
    \o <<":", " ", "e", "x", "p", "e", "c", "t", "e", "d", " ">>
    \o w.expected \o <<" ", "g", "o", "t", " ">>
    \o (IF w.got = None THEN <<"n", "o", "n", "e">> ELSE w.got.value)

\* the clauses of a list of records with "; " between them
RECURSIVE ClausesFrom(_, _)
ClausesFrom(issues, k) ==
  IF k > Len(issues) THEN <<>>
  ELSE (IF k = 1 THEN <<>> ELSE <<";", " ">>)
         \o ClauseOf(issues[k]) \o ClausesFrom(issues, k + 1)

\* C12: for a non-empty mismatch list the summary is one clause per retained
\* issue, in order, joined by "; ", each reading
\* "at <index+1>: expected <expected> got <got>" with the 1-based position,
\* and with the word "none" in place of the played token exactly when the
\* record's got is null.
C12_SummaryText ==
  (Done("build_mistake_summary") /\ call.wrong_notes # <<>>) =>
    result.summary = ClausesFrom(result.issues, 1)

\* a played token and a missing one, in two clauses
C12_Witness ==
  /\ Done("build_mistake_summary")
  /\ call.wrong_notes =
       << [expected |-> <<"1">>, got |-> Some(<<"b", "7">>), index |-> 0],
          [expected |-> <<"1">>, got |-> None, index |-> 1] >>
  /\ result.summary =
       <<"a", "t", " ", "1", ":", " ", "e", "x", "p", "e", "c", "t", "e",
         "d", " ", "1", " ", "g", "o", "t", " ", "b", "7", ";", " ",
         "a", "t", " ", "2", ":", " ", "e", "x", "p", "e", "c", "t", "e",
         "d", " ", "1", " ", "g", "o", "t", " ", "n", "o", "n", "e">>

\* a position of two digits
C12_WitnessLoose ==
  /\ Done("build_mistake_summary")
  /\ Len(call.wrong_notes) = 1
  /\ call.wrong_notes[1].index = 9
  /\ SubSeq(result.summary, 1, 5) = <<"a", "t", " ", "1", "0">>

---------------------------------------------------------------------------
(* The exercise catalog *)

\* C17: expected_numbers_for_exercise returns the stored degree list of the
\* catalog entry unchanged, whatever the tonic and mode arguments are; it
\* returns an empty sequence for an identifier that is not in the catalog;
\* and for "c_major_scale_up" the sequence starts and ends with "1".
C17_StoredList ==
  Done("expected_numbers_for_exercise") =>
    LET id == call.exercise_id
    IN  /\ id \in DOMAIN EXPECTED_EXERCISES =>
             result = EXPECTED_EXERCISES[id].base_numbers
        /\ id \notin DOMAIN EXPECTED_EXERCISES => result = <<>>
        /\ \A tonic \in KeyTonics, mode \in {MAJOR, MINOR} :
             expected_numbers_for_exercise(id, tonic, mode) = result
        /\ id = "c_major_scale_up" =>
             /\ result # <<>>
             /\ result[1] = <<"1">>
             /\ result[Len(result)] = <<"1">>

\* the scale asked for in A minor is the stored one, 1 2 3 4 5 6 7 1
C17_Witness ==
  /\ Done("expected_numbers_for_exercise")
  /\ call.exercise_id = "c_major_scale_up"
  /\ call.tonic = <<"A">>
  /\ call.mode = MINOR
  /\ Len(result) = 8
  /\ result[1] = <<"1">>
  /\ result[8] = <<"1">>

\* an identifier that differs from a stored one by letter case only
C17_WitnessUnknown ==
  /\ Done("expected_numbers_for_exercise")
  /\ call.exercise_id = "C_MAJOR_SCALE_UP"
  /\ result = <<>>

---------------------------------------------------------------------------
(* From a degree token to a note name *)

\* the call names a Key: one of the twelve pitch classes, in any letter
\* case, with the mode major or minor
KeyOfCall ==
  /\ list_contains(PITCH_CLASSES, upper(call.tonic))
  /\ call.mode \in {MAJOR, MINOR}

\* +1 for a leading "#", -1 for a leading "b", 0 without a prefix
AccidentalOffset(t) ==
  IF TokenPrefix(t) = <<"#">> THEN 1
  ELSE IF TokenPrefix(t) = <<"b">> THEN -1
  ELSE 0

\* the note name of the given degree and offset in the key that
\* degree_token_for_midi resolves tonic and mode to
NoteNameIn(tonic, mode, degree, offset) ==
  LET found == _pitch_class_index(tonic)
      tonicIndex == IF IsNone(found) THEN 0 ELSE found.value
      scaleInterval == _scale_intervals(mode)
  IN  PITCH_CLASSES[((tonicIndex + scaleInterval[degree] + offset) % 12) + 1]
        \o <<"4">>

\* C13: for every token with degree 1..7 and every key, number_to_note_name
\* returns the name of pitch class
\* (tonicIndex + scaleInterval[degree-1] + accidentalOffset) mod 12 followed
\* by the octave 4, the offset being +1 for a leading "#", -1 for a leading
\* "b" and 0 without a prefix, and the intervals those of the given mode.
C13_NoteOfDegree ==
  (Done("number_to_note_name") /\ KeyOfCall /\ IsDegreeToken(call.token)) =>
    result = Return(NoteNameIn(call.tonic, call.mode, TokenDegree(call.token),
                               AccidentalOffset(call.token)))

\* the lowered seventh degree of A minor is F#
C13_Witness ==
  /\ Done("number_to_note_name")
  /\ call.token = <<"b", "7">>
  /\ call.tonic = <<"A">>
  /\ call.mode = MINOR
  /\ result = Return(<<"F", "#", "4">>)

\* C14 as claimed: number_to_note_name resolves the key exactly as
\* degree_token_for_midi does and never raises on a malformed key: for every
\* tonic string (any letter case, the flat aliases, unrecognized names, which
\* fall back to C) and every mode string (case-insensitive "minor", anything
\* else major) it returns the note name computed from the tonic index and
\* scale intervals degree_token_for_midi uses for that tonic and mode.
C14_KeyResolution ==
  (Done("number_to_note_name") /\ IsDegreeToken(call.token)) =>
    /\ ~result.raised
    /\ result = Return(NoteNameIn(call.tonic, call.mode,
                                  TokenDegree(call.token),
                                  AccidentalOffset(call.token)))

\* C15 as claimed: number_to_note_name never raises on a malformed degree
\* token: after an optional leading "#" or "b" is removed, a remainder that is
\* not a degree number 1..7 (empty, non-numeric, 0, negative, 8 or larger,
\* multi-digit) is treated as degree 1, and a note name is returned.
C15_DegreeFallback ==
  (Done("number_to_note_name") /\ KeyOfCall) =>
    /\ ~result.raised
    /\ ~IsDegreeToken(call.token) =>
         result = Return(NoteNameIn(call.tonic, call.mode, 1,
                                    AccidentalOffset(call.token)))

\* the pitch class a MIDI value belongs to, by name
PitchClassName(midi) == PITCH_CLASSES[(midi % 12) + 1]

---------------------------------------------------------------------------
(* The two lists of the notes-to-numbers reply *)

\* the route has answered a POST with the two lists
Transcribed ==
  /\ Done("notes_to_numbers")
  /\ call.method = "POST"
  /\ result.status = 200

\* C18 as claimed: 'numbers' and 'note_names' are parallel: for every input
\* list of notes (including notes whose midi is null) they have the same
\* length, and the entries at each position i describe the same input note.
C18_ParallelLists ==
  Transcribed =>
    LET notes == get_or(call.data, "notes", JsonList(<<>>)).items
        key_tonic == get_or(call.data, "key_tonic", <<"C">>)
        mode == get_or(call.data, "mode", MAJOR)
        acc_pref == get_or(call.data, "accidental_pref", "sharps")
    IN  /\ Len(result.numbers) = Len(result.note_names)
        /\ \A i \in 1..Len(result.numbers) :
             /\ HasMidi(notes[i])
             /\ result.note_names[i] = midi_to_note_name(notes[i].midi)
             /\ result.numbers[i] =
                  degree_token_for_midi(notes[i].midi.value, key_tonic, mode,
                                        acc_pref)

---------------------------------------------------------------------------
(* The accidental preference *)

\* C19: the accidental preference never influences degree_token_for_midi: for
\* every MIDI value, tonic and mode, the nearest diatonic degree of a
\* non-diatonic pitch class is at cyclic distance exactly 1, so
\* (pitchClass - closestPC) mod 12 is 1 or 11, the branch that reads the
\* preference is not reached, and the token returned with "sharps" equals the
\* token returned with "flats".
C19_PreferenceUnused ==
  Done("degree_token_for_midi") =>
    LET degreePC == DegreePC(call.key_tonic, call.mode)
        degrees == {degreePC[i] : i \in 1..7}
        pitchClass == call.midi % 12
    IN  /\ degree_token_for_midi(call.midi, call.key_tonic, call.mode,
                                 "sharps") = result
        /\ degree_token_for_midi(call.midi, call.key_tonic, call.mode,
                                 "flats") = result
        /\ pitchClass \notin degrees =>
             LET closestPC == closest_degree(degreePC, pitchClass)
             IN  /\ SemitoneDistance(pitchClass, closestPC) = 1
                 /\ \A d \in degrees : SemitoneDistance(pitchClass, d) >= 1
                 /\ (pitchClass - closestPC) % 12 \in {1, 11}

\* B in C minor, asked for with sharps: a semitone under degree 1, and the
\* token carries the flat
C19_Witness ==
  /\ Done("degree_token_for_midi")
  /\ call.midi = 11
  /\ call.key_tonic = <<"C">>
  /\ call.mode = MINOR
  /\ call.accidental_pref = "sharps"
  /\ result = <<"b", "1">>

---------------------------------------------------------------------------
(* One token too many, or one too few *)

\* compare_sequences has compared a melody with an edited copy of it
Edited == Done("compare_sequences") /\ "edit" \in DOMAIN call

\* the positions compare_sequences reports
Reported == {result[2][j].index : j \in 1..Len(result[2])}

\* C20 as claimed: for every non-empty expected sequence and every played
\* sequence obtained from it by inserting one token at, or deleting the token
\* at, position k, compare_sequences reports a mismatch at every position from
\* k to len(expected)-1.
C20_Original ==
  Edited => \A i \in call.k..(Len(call.expected) - 1) : i \in Reported

\* C20: after one token is inserted at position k, or the token at position k
\* is deleted, compare_sequences reports no position before k, and a position
\* i from k on exactly when the token the edit moved there differs from
\* expected[i]: after an insertion position k is reported when the inserted
\* token differs from expected[k] and a later i when expected[i-1] differs
\* from expected[i]; after a deletion a position i before the last is reported
\* when expected[i+1] differs from expected[i], and the last position, which
\* is left without a played token, always.  So every position from k on is
\* reported whenever the melody never repeats a token from position k on and,
\* for an insertion, the inserted token differs from expected[k].
C20_Cascade ==
  Edited =>
    LET expected == call.expected
        played == call.played
        k == call.k
        last == Len(expected) - 1
        at(i) == expected[i + 1]
        moved(i) ==
          IF call.edit = "insert"
          THEN (IF i = k THEN played[k + 1] # at(i) ELSE at(i - 1) # at(i))
          ELSE (IF i = last THEN TRUE ELSE at(i + 1) # at(i))
        neverRepeats == \A i \in (k + 1)..last : at(i - 1) # at(i)
    IN  /\ \A i \in 0..last : i \in Reported <=> (i >= k /\ moved(i))
        /\ (/\ neverRepeats
            /\ call.edit = "insert" /\ k <= last => played[k + 1] # at(k))
             => \A i \in k..last : i \in Reported

\* the first token of 1 2 1 left out: every position is reported
C20_Witness ==
  /\ Edited
  /\ call.expected = << <<"1">>, <<"b", "7">>, <<"1">> >>
  /\ call.edit = "delete"
  /\ call.k = 0
  /\ call.played = << <<"b", "7">>, <<"1">> >>
  /\ Reported = {0, 1, 2}

\* a token left out of a repeated one: the last position alone is reported
C20_WitnessRepeated ==
  /\ Edited
  /\ call.expected = << <<"1">>, <<"1">>, <<"1">> >>
  /\ call.edit = "delete"
  /\ call.k = 0
  /\ Reported = {2}

---------------------------------------------------------------------------
(* Octaves and transposition *)

\* the octaves a pitch is moved by
OctaveShifts == {-2, -1, 1, 2}

\* the tonic name s semitones above a recognized one
Transposed(key_tonic, s) ==
  PITCH_CLASSES[((_pitch_class_index(key_tonic).value + s) % 12) + 1]

\* C21: the token of degree_token_for_midi depends only on the mode and on
\* (midi - tonicIndex) mod 12: adding a multiple of 12 to the MIDI value
\* leaves the token unchanged, and shifting the MIDI value and the tonic by
\* the same number of semitones leaves it unchanged, for every MIDI value,
\* every recognized tonic and both modes.
C21_Transposition ==
  (Done("degree_token_for_midi") /\ Recognized(call.key_tonic)) =>
    LET midi == call.midi
        key_tonic == call.key_tonic
        tonicIndex == _pitch_class_index(key_tonic).value
    IN  /\ result =
             degree_token_for_midi((midi - tonicIndex) % 12, <<"C">>,
                                   call.mode, call.accidental_pref)
        /\ \A j \in OctaveShifts :
             degree_token_for_midi(midi + 12 * j, key_tonic, call.mode,
                                   call.accidental_pref) = result
        /\ \A s \in 1..11 :
             degree_token_for_midi(midi + s, Transposed(key_tonic, s),
                                   call.mode, call.accidental_pref) = result

\* A sharp in E flat minor, which is "#4" as F sharp is in C minor, and as
\* the same pitch two octaves up is
C21_Witness ==
  /\ Done("degree_token_for_midi")
  /\ call.midi = -3
  /\ call.key_tonic = <<"E", "b">>
  /\ call.mode = MINOR
  /\ result = <<"#", "4">>
  /\ degree_token_for_midi(6, <<"C">>, MINOR, "sharps") = <<"#", "4">>
  /\ degree_token_for_midi(21, <<"E", "b">>, MINOR, "sharps") = <<"#", "4">>
  /\ Transposed(<<"E", "b">>, 2) = <<"F">>
  /\ degree_token_for_midi(-1, <<"F">>, MINOR, "sharps") = <<"#", "4">>

---------------------------------------------------------------------------
(* Flats *)

\* the call is in a minor key: the mode reads "minor" in some letter case
MinorKey == _scale_intervals(call.mode) = <<0, 2, 3, 5, 7, 8, 10>>

\* the semitones from the tonic of the call up to its pitch
SemitonesAboveTonic ==
  LET found == _pitch_class_index(call.key_tonic)
      tonicIndex == IF IsNone(found) THEN 0 ELSE found.value
  IN  (call.midi - tonicIndex) % 12

\* C22: in a major key degree_token_for_midi never returns a "b"-prefixed
\* token (every chromatic pitch is spelled as a sharp of the degree below it,
\* so "b7" is never produced), and in a minor key the only "b"-prefixed token
\* it returns is "b1", for the pitch class one semitone below the tonic.
C22_FlatsRare ==
  Done("degree_token_for_midi") =>
    LET degreePC == DegreePC(call.key_tonic, call.mode)
        pitchClass == call.midi % 12
        chromatic == \A i \in 1..7 : degreePC[i] # pitchClass
    IN  /\ ~MinorKey =>
             /\ TokenPrefix(result) # <<"b">>
             /\ chromatic =>
                  /\ TokenPrefix(result) = <<"#">>
                  /\ IsNumeral(TokenDigits(result))
                  /\ TokenDegree(result) \in 1..7
                  /\ degreePC[TokenDegree(result)] = (pitchClass - 1) % 12
        /\ MinorKey =>
             /\ TokenPrefix(result) = <<"b">> => result = <<"b", "1">>
             /\ result = <<"b", "1">> <=> SemitonesAboveTonic = 11

\* B flat in C major, asked for with flats, is "#6" and not "b7"
C22_Witness ==
  /\ Done("degree_token_for_midi")
  /\ call.midi = 10
  /\ call.key_tonic = <<"C">>
  /\ call.mode = MAJOR
  /\ call.accidental_pref = "flats"
  /\ result = <<"#", "6">>

\* G sharp in A minor is "b1"
C22_WitnessMinor ==
  /\ Done("degree_token_for_midi")
  /\ call.midi = 8
  /\ call.key_tonic = <<"A">>
  /\ call.mode = MINOR
  /\ call.accidental_pref = "flats"
  /\ result = <<"b", "1">>

---------------------------------------------------------------------------
(* The rate limiter *)

\* request i of the log was let through to the route's function
Admitted(i) == log[i].status # 429

\* the requests of the log's client ip that were admitted at a clock value
\* from `from` to `to`, among the first n requests
AdmittedBetween(ip, from, to, n) ==
  {i \in 1..n :
     /\ log[i].ip = ip
     /\ Admitted(i)
     /\ log[i].now >= from
     /\ log[i].now <= to}

\* what holds of the log and the buckets after any number of requests
RateInvariant ==
  /\ \A i \in 1..Len(log) :
       \* a bucket lives from its creation, 60 s before its reset time, to
       \* its reset time, and admits at most the limit in that time
       /\ Cardinality(AdmittedBetween(log[i].ip, log[i].reset - 60,
                                      log[i].reset, Len(log)))
            <= RATE_LIMIT_PER_MIN
       /\ log[i].now >= log[i].reset - 60
       /\ log[i].now <= log[i].reset
       \* 429 only when the bucket already holds the limit
       /\ ~Admitted(i) =>
            Cardinality(AdmittedBetween(log[i].ip, log[i].reset - 60,
                                        log[i].reset, i - 1))
              = RATE_LIMIT_PER_MIN
  /\ \A ip \in DOMAIN rate_state :
       /\ rate_state[ip].count <= RATE_LIMIT_PER_MIN
       /\ rate_state[ip].count =
            Cardinality(AdmittedBetween(ip, rate_state[ip].reset - 60,
                                        rate_state[ip].reset, Len(log)))
  /\ fn_calls = Cardinality({i \in 1..Len(log) : Admitted(i)})
  /\ \A i \in 1..(Len(log) - 1) : log[i].now <= log[i + 1].now

\* what holds of every request: a rejected one changes no bucket and does
\* not run the route's function, and no request changes the bucket of
\* another client
RateStep ==
  LET served == log'[Len(log')]
  IN  /\ Len(log') = Len(log) + 1
      /\ ~(served.status # 429) =>
           /\ rate_state' = rate_state
           /\ fn_calls' = fn_calls
           /\ result' = TOO_MANY
      /\ DOMAIN rate_state' \subseteq DOMAIN rate_state \cup {served.ip}
      /\ \A ip \in DOMAIN rate_state :
           ip # served.ip =>
             /\ ip \in DOMAIN rate_state'
             /\ rate_state'[ip] = rate_state[ip]

\* C23: for requests handled one at a time with non-decreasing clock values,
\* the rate limiter admits at most RATE_LIMIT_PER_MIN requests per client IP
\* between the creation of that IP's bucket and its reset time (creation +
\* 60 s); a request is rejected with 429 only when the current bucket already
\* holds RATE_LIMIT_PER_MIN admitted requests; a rejected request leaves the
\* stored rate state unchanged and does not run the handler; the stored
\* count of a bucket never exceeds RATE_LIMIT_PER_MIN; and requests from one
\* IP never change another IP's bucket.
C23_RateLimit == []RateInvariant /\ [][RateStep]_vars

\* One client used its bucket up, was rejected at the reset time itself and
\* admitted again a second later, while the other client's bucket, made in
\* between, stayed as it was and then rejected a request of its own
C23_Witness ==
  /\ RATE_LIMIT_PER_MIN = 1
  /\ Len(log) = 5
  /\ log[1].ip = "10.0.0.1" /\ Admitted(1)
  /\ log[2].ip = "10.0.0.1" /\ ~Admitted(2) /\ log[2].now = log[1].reset
  /\ log[3].ip = "unknown" /\ Admitted(3)
  /\ log[4].ip = "10.0.0.1" /\ Admitted(4) /\ log[4].now = log[1].reset + 1
  /\ log[5].ip = "unknown" /\ ~Admitted(5)
  /\ result = TOO_MANY
  /\ rate_state["unknown"] = [count |-> 1, reset |-> log[3].now + 60]
  /\ rate_state["10.0.0.1"] = [count |-> 1, reset |-> log[4].now + 60]
  /\ fn_calls = 3

=============================================================================
